---- MODULE Spec2Model ----
(***************************************************************************)
(* Navigation subsystem of the three "Way of the Warrior" pygame demos:    *)
(*   v1  = way_of_warrior_starter_pygame_with_assets                       *)
(*   v2  = way_of_warrior_starter_pygame_with_assets_v2_ui_fix_portal      *)
(*   v10 = way_of_warrior_starter_pygame_with_assets_v10_coords_portal_fix *)
(* The grid is scaled down from 40 x 40; cells are pairs <<x, y>>.         *)
(* Times are integer milliseconds (dt = clock.tick(FPS) / 1000.0 is a      *)
(* whole number of milliseconds), so 0.10 s is 100 and 0.12 s is 120.      *)
(***************************************************************************)
EXTENDS Integers, Sequences, FiniteSets, TLC

VARIABLES
    variant,   \* which of the three demos runs
    blocked,   \* IsoMap.blocked, the obstacle set
    start,     \* astar's first argument (stepwise search)
    goal,      \* astar's second argument (stepwise search)
    search,    \* astar's locals and its position (stepwise search)
    hero,      \* the Hero object: gx, gy, path, step_timer
    cam_x,     \* camera origin, screen pixels
    cam_y,
    err,       \* "none", or the exception that ended the main loop
    last,      \* the handler that ran last, with its inputs
    trip,      \* the route installed last on an idle hero, and the ticks since
    proj,      \* a call of the projection functions: inputs, position, result
    build,     \* map construction: the cells drawn so far and its position
    ui         \* main's other locals: panel flags, portal, enemies, pan count

\* ------------------------------------------------------------------ bounds
\* Grid width and height (40 x 40 in the demos).
GRID_W == 4
GRID_H == 3
\* Largest number of distinct obstacle cells a layout holds.
MaxBlocked == 2

\* --------------------------------------------------------------- constants
\* f.get(n, 10**9) / g.get(nb, 10**9): the default for a missing key.
INF == 1000000000

Variants == {"v1", "v2", "v10"}

Cells == (0 .. GRID_W - 1) \X (0 .. GRID_H - 1)

Abs(n) == IF n < 0 THEN -n ELSE n

\* ------------------------------------------------------------------- A*
\* def h(a,b): return abs(a[0]-b[0]) + abs(a[1]-b[1])
h(a, b) == Abs(a[1] - b[1]) + Abs(a[2] - b[2])

\* (mutant) neighbors without the obstacle test.
neighbors_any(n, blk) ==
    { nb \in { <<n[1] + 1, n[2]>>, <<n[1] - 1, n[2]>>,
               <<n[1], n[2] + 1>>, <<n[1], n[2] - 1>> } :
        /\ 0 <= nb[1] /\ nb[1] < GRID_W
        /\ 0 <= nb[2] /\ nb[2] < GRID_H }

\* def neighbors(n): the in-bounds, non-blocked cells among the four
\* axis-aligned neighbours of n.
neighbors(n, blk) ==
    { nb \in { <<n[1] + 1, n[2]>>, <<n[1] - 1, n[2]>>,
               <<n[1], n[2] + 1>>, <<n[1], n[2] - 1>> } :
        /\ 0 <= nb[1] /\ nb[1] < GRID_W
        /\ 0 <= nb[2] /\ nb[2] < GRID_H
        /\ nb \notin blk }

\* d.get(k, 10**9) on a dict d.
DictGet(d, k) == IF k \in DOMAIN d THEN d[k] ELSE INF

\* The empty dict.
EmptyDict == [k \in {} |-> 0]

\* list.reverse()
Reverse(s) == [i \in 1 .. Len(s) |-> s[Len(s) + 1 - i]]

\* path = [current]; while current in came: current = came[current];
\* path.append(current)
RECURSIVE WalkBack(_, _)
WalkBack(came, current) ==
    IF current \in DOMAIN came
    THEN <<current>> \o WalkBack(came, came[current])
    ELSE <<current>>

\* (mutant) the reconstruction without path.reverse().
ReconstructPath_noreverse(came, current) == WalkBack(came, current)

\* The reconstruction: walk came back from the goal, then reverse.
ReconstructPath(came, current) == Reverse(WalkBack(came, current))

\* (mutant) no variant has the early returns.
HasEarlyReturns_never(v) == FALSE

\* Whether the variant's astar begins with the two early returns
\* (start == goal, goal in blocked); the first variant has neither.
HasEarlyReturns(v) == v \in {"v2", "v10"}

\* The search before the call: nothing allocated.
SearchIdle ==
    [pc |-> "entry", open_set |-> {}, came |-> EmptyDict, g |-> EmptyDict,
     f |-> EmptyDict, result |-> <<>>]

\* (mutant) the start == goal return hands back [] and the loop starts
\* from an empty open set.
AstarEnter_empty(v, st, gl, blk) ==
    IF HasEarlyReturns(v) /\ st = gl
    THEN [SearchIdle EXCEPT !.pc = "ret_same", !.result = <<>>]
    ELSE IF HasEarlyReturns(v) /\ gl \in blk
    THEN [SearchIdle EXCEPT !.pc = "ret_blocked", !.result = <<>>]
    ELSE [pc |-> "loop", open_set |-> {}, came |-> EmptyDict,
          g |-> [k \in {st} |-> 0], f |-> [k \in {st} |-> h(st, gl)],
          result |-> <<>>]

\* Entry of astar(start, goal, blocked) up to the head of the while loop.
AstarEnter(v, st, gl, blk) ==
    IF HasEarlyReturns(v) /\ st = gl
    THEN [SearchIdle EXCEPT !.pc = "ret_same", !.result = <<st>>]
    ELSE IF HasEarlyReturns(v) /\ gl \in blk
    THEN [SearchIdle EXCEPT !.pc = "ret_blocked", !.result = <<>>]
    ELSE [pc |-> "loop", open_set |-> {st}, came |-> EmptyDict,
          g |-> [k \in {st} |-> 0], f |-> [k \in {st} |-> h(st, gl)],
          result |-> <<>>]

\* (mutant) the selection ignores f: any member of the open set.
MinF_any(s) == s.open_set

\* min(open_set, key=lambda n: f.get(n, 10**9)): any member of lowest f.
MinF(s) ==
    { n \in s.open_set :
        \A m \in s.open_set : DictGet(s.f, n) <= DictGet(s.f, m) }

\* The neighbours of current that the relaxation test lets through.
Relaxed(s, current, blk) ==
    { nb \in neighbors(current, blk) : s.g[current] + 1 < DictGet(s.g, nb) }

\* (mutant) one pass of the loop that forgets open_set.remove(current).
AstarIter_noremove(s, current, gl, blk) ==
    IF current = gl
    THEN [s EXCEPT !.pc = "ret_found",
                   !.result = ReconstructPath(s.came, current)]
    ELSE IF current \notin DOMAIN s.g
    THEN [s EXCEPT !.pc = "error"]
    ELSE LET rel == Relaxed(s, current, blk)
             tentative == s.g[current] + 1
         IN [s EXCEPT
               !.open_set = s.open_set \cup rel,
               !.came = [k \in DOMAIN s.came \cup rel |->
                           IF k \in rel THEN current ELSE s.came[k]],
               !.g = [k \in DOMAIN s.g \cup rel |->
                           IF k \in rel THEN tentative ELSE s.g[k]],
               !.f = [k \in DOMAIN s.f \cup rel |->
                           IF k \in rel THEN tentative + h(k, gl)
                           ELSE s.f[k]]]

\* One pass of the while loop with `current` selected.
AstarIter(s, current, gl, blk) ==
    IF current = gl
    THEN [s EXCEPT !.pc = "ret_found",
                   !.result = ReconstructPath(s.came, current)]
    ELSE IF current \notin DOMAIN s.g
    THEN [s EXCEPT !.pc = "error"]
    ELSE LET rel == Relaxed(s, current, blk)
             tentative == s.g[current] + 1
         IN [s EXCEPT
               !.open_set = (s.open_set \ {current}) \cup rel,
               !.came = [k \in DOMAIN s.came \cup rel |->
                           IF k \in rel THEN current ELSE s.came[k]],
               !.g = [k \in DOMAIN s.g \cup rel |->
                           IF k \in rel THEN tentative ELSE s.g[k]],
               !.f = [k \in DOMAIN s.f \cup rel |->
                           IF k \in rel THEN tentative + h(k, gl)
                           ELSE s.f[k]]]

\* The states one pass of the loop can lead to, over every tie order.
AstarSucc(s, gl, blk) ==
    IF s.pc # "loop" THEN {s}
    ELSE IF s.open_set = {}
    THEN {[s EXCEPT !.pc = "ret_exhausted", !.result = <<>>]}
    ELSE { AstarIter(s, current, gl, blk) : current \in MinF(s) }

Returned(s) == s.pc \in {"ret_same", "ret_blocked", "ret_found", "ret_exhausted"}

\* Where a search state has left the loop: the return site (or "error")
\* and the value returned.
Exits(S) == { [pc |-> s.pc, result |-> s.result] : s \in { t \in S : t.pc # "loop" } }

\* The while loop run to its end over every tie order: `looping` are the
\* states at the loop head, `exits` the exits collected so far.
RECURSIVE AstarRun(_, _, _, _)
AstarRun(looping, exits, gl, blk) ==
    IF looping = {} THEN exits
    ELSE LET nxt == UNION { AstarSucc(s, gl, blk) : s \in looping }
         IN AstarRun({ s \in nxt : s.pc = "loop" }, exits \cup Exits(nxt),
                     gl, blk)

\* astar(start, goal, blocked): where it can return, and with what.
astar(v, st, gl, blk) ==
    LET s0 == AstarEnter(v, st, gl, blk)
    IN AstarRun({ s \in {s0} : s.pc = "loop" }, Exits({s0}), gl, blk)

\* ----------------------------------------------------------- projection
\* Window size, tile size, initial camera row (program constants).
W == 1280
H == 720
TILE_W == 64
TILE_H == 32
CAM_Y0 == 160

\* v10: shift of the isometric world so that x is never negative.
ISO_ORIGIN_X == (GRID_H - 1) * (TILE_W \div 2)
ISO_ORIGIN_Y == 0

Min(a, b) == IF a < b THEN a ELSE b
Max(a, b) == IF a > b THEN a ELSE b

\* int(n / d) for d > 0: truncation toward zero.
TruncDiv(n, d) == IF n >= 0 THEN n \div d ELSE -((-n) \div d)

\* int(round(n / d)) for d > 0: Python 3 rounds halves to the even integer.
RoundDiv(n, d) ==
    LET q == n \div d
        r == n % d
    IN IF 2 * r < d THEN q
       ELSE IF 2 * r > d THEN q + 1
       ELSE IF q % 2 = 0 THEN q ELSE q + 1

\* v1: grid cell to screen point.
grid_to_screen(gx, gy, ox, oy) ==
    <<(gx - gy) * (TILE_W \div 2) + ox, (gx + gy) * (TILE_H \div 2) + oy>>

\* v1: screen point to grid cell. (y/(TILE_H/2) + x/(TILE_W/2)) / 2 is the
\* quotient (y*TILE_W + x*TILE_H) / (TILE_W*TILE_H), which the floats hold
\* exactly for the power-of-two tile sizes; int() truncates it.
screen_to_grid(sx, sy, ox, oy) ==
    LET x == sx - ox
        y == sy - oy
    IN <<TruncDiv(y * TILE_W + x * TILE_H, TILE_W * TILE_H),
         TruncDiv(y * TILE_W - x * TILE_H, TILE_W * TILE_H)>>

\* v2, v10: grid cell to isometric world point (tile top-left); v10 adds
\* the origin shift.
grid_to_iso(v, gx, gy) ==
    IF v = "v10"
    THEN <<(gx - gy) * (TILE_W \div 2) + ISO_ORIGIN_X,
           (gx + gy) * (TILE_H \div 2) + ISO_ORIGIN_Y>>
    ELSE <<(gx - gy) * (TILE_W \div 2), (gx + gy) * (TILE_H \div 2)>>

\* (mutant) iso_to_grid without v10's origin shift.
iso_to_grid_noshift(v, ix0, iy0) ==
    <<RoundDiv(ix0 * TILE_H + iy0 * TILE_W, TILE_W * TILE_H),
      RoundDiv(iy0 * TILE_W - ix0 * TILE_H, TILE_W * TILE_H)>>

\* v2, v10: isometric world point to grid cell, rounded.
iso_to_grid(v, ix0, iy0) ==
    LET ix == IF v = "v10" THEN ix0 - ISO_ORIGIN_X ELSE ix0
        iy == IF v = "v10" THEN iy0 - ISO_ORIGIN_Y ELSE iy0
    IN <<RoundDiv(ix * TILE_H + iy * TILE_W, TILE_W * TILE_H),
         RoundDiv(iy * TILE_W - ix * TILE_H, TILE_W * TILE_H)>>

\* def clamp(v, lo, hi), and max(lo, min(hi, v)) of v1 and v10.
clamp(x, lo, hi) == IF x < lo THEN lo ELSE IF x > hi THEN hi ELSE x

\* The cell the variant's MOUSEBUTTONDOWN handler resolves a click to:
\* inverse projection, the handler's own pixel offset, then clamping.
ClickCell(v, mx, my, cx, cy) ==
    LET c == IF v = "v1" THEN screen_to_grid(mx, my, cx, cy)
             ELSE IF v = "v2"
             THEN iso_to_grid(v, (mx - cx) - TILE_W \div 2, my - cy)
             ELSE iso_to_grid(v, mx - cx, my - cy)
    IN <<clamp(c[1], 0, GRID_W - 1), clamp(c[2], 0, GRID_H - 1)>>

\* v10: safe_rect is the whole window when no frame image is loaded, and
\* clicks outside it are ignored.
InSafeRect(mx, my) == 0 <= mx /\ mx < W /\ 0 <= my /\ my < H

\* ------------------------------------------------------------- the map
\* The landmarks of the 40 x 40 map, placed on the grid in proportion: the
\* default hero cell (10, 10) is a quarter of the way in, the cell (20, 20)
\* is the centre. On a 40 x 40 grid these are the literals of the code.
HeroDefault == <<GRID_W \div 4, GRID_H \div 4>>

\* v10: portal = (GRID_W // 2, GRID_H // 2); v2: Portal(gx=20, gy=20).
portal == <<GRID_W \div 2, GRID_H \div 2>>

\* The cells IsoMap.__init__ never blocks: (10,10), (11,10), (10,11) in v1;
\* (10,10), (20,20) in v2 and v10.
Exclusions(v) ==
    IF v = "v1"
    THEN { HeroDefault, <<HeroDefault[1] + 1, HeroDefault[2]>>,
           <<HeroDefault[1], HeroDefault[2] + 1>> }
    ELSE { HeroDefault, portal }

PortalArea ==
    { c \in Cells : Abs(c[1] - portal[1]) <= 1 /\ Abs(c[2] - portal[2]) <= 1 }

\* The obstacle set built from the drawn cells: IsoMap.__init__, then in
\* v10 the clearing of the portal area in main.
BuildBlocked(v, drawn) ==
    IF v = "v10" THEN (drawn \ Exclusions(v)) \ PortalArea
    ELSE drawn \ Exclusions(v)

\* Every set of at most MaxBlocked cells.
Layouts == { b \in SUBSET Cells : Cardinality(b) <= MaxBlocked }

\* The cells the random draws of map construction fall on in the main-loop
\* specification.
DrawPool == { <<0, 1>>, <<0, 2>>, <<1, 2>>, <<2, 2>> }

\* The obstacle layouts map construction yields from at most MaxBlocked
\* distinct drawn cells of the pool.
MapLayouts(v) ==
    { BuildBlocked(v, drawn) :
        drawn \in { d \in SUBSET DrawPool : Cardinality(d) <= MaxBlocked } }

\* ------------------------------------------------------------ the hero
\* Seconds per tile, in milliseconds: 0.12 in v1, 0.10 in v2 and v10.
STEP_V1 == 120
STEP_V2 == 100

Interval(v) == IF v = "v1" THEN STEP_V1 ELSE STEP_V2

\* Hero.path is None, or a list.
PathNone == [none |-> TRUE, cells |-> <<>>]
PathList(c) == [none |-> FALSE, cells |-> c]

\* `not self.path`: None and the empty list are both false.
NotPath(p) == p.none \/ p.cells = <<>>

\* Hero() in v1 and v2 (gx = gy = 10); Hero(gx=portal[0]-4, gy=portal[1]+6)
\* in v10, kept inside the scaled-down grid.
HeroInit(v) ==
    LET c == IF v = "v10"
             THEN <<clamp(portal[1] - 4, 0, GRID_W - 1),
                    clamp(portal[2] + 6, 0, GRID_H - 1)>>
             ELSE HeroDefault
    IN [gx |-> c[1], gy |-> c[2], path |-> PathNone, step_timer |-> 0]

\* (mutant) set_path that stores None for a path empty after the trim.
set_path_none(hr, p) ==
    LET q == IF p # <<>> /\ p[1] = <<hr.gx, hr.gy>> THEN Tail(p) ELSE p
    IN [hr EXCEPT !.path = IF q = <<>> THEN PathNone ELSE PathList(q)]

\* (mutant) set_path that also restarts the step timer.
set_path_reset(hr, p) ==
    LET q == IF p # <<>> /\ p[1] = <<hr.gx, hr.gy>> THEN Tail(p) ELSE p
    IN [hr EXCEPT !.path = PathList(q), !.step_timer = STEP_V2]

\* Hero.set_path(p)
set_path(hr, p) ==
    LET q == IF p # <<>> /\ p[1] = <<hr.gx, hr.gy>> THEN Tail(p) ELSE p
    IN [hr EXCEPT !.path = PathList(q)]

\* (mutant) v1's update with the threshold test strict.
update_v1_strict(hr, dt) ==
    IF NotPath(hr.path) THEN hr
    ELSE LET t == hr.step_timer + dt
             rest == Tail(hr.path.cells)
         IN IF t > STEP_V1
            THEN [hr EXCEPT !.step_timer = 0,
                            !.gx = Head(hr.path.cells)[1],
                            !.gy = Head(hr.path.cells)[2],
                            !.path = IF rest = <<>> THEN PathNone
                                     ELSE PathList(rest)]
            ELSE [hr EXCEPT !.step_timer = t]

\* (mutant) v1's update forgetting the time of a call that moved nothing.
update_v1_restart(hr, dt) ==
    IF NotPath(hr.path) THEN hr
    ELSE LET t == hr.step_timer + dt
             rest == Tail(hr.path.cells)
         IN IF t >= STEP_V1
            THEN [hr EXCEPT !.step_timer = 0,
                            !.gx = Head(hr.path.cells)[1],
                            !.gy = Head(hr.path.cells)[2],
                            !.path = IF rest = <<>> THEN PathNone
                                     ELSE PathList(rest)]
            ELSE [hr EXCEPT !.step_timer = 0]

\* Hero.update(dt), v1: the timer counts up and restarts from 0.
update_v1(hr, dt) ==
    IF NotPath(hr.path) THEN hr
    ELSE LET t == hr.step_timer + dt
             rest == Tail(hr.path.cells)
         IN IF t >= STEP_V1
            THEN [hr EXCEPT !.step_timer = 0,
                            !.gx = Head(hr.path.cells)[1],
                            !.gy = Head(hr.path.cells)[2],
                            !.path = IF rest = <<>> THEN PathNone
                                     ELSE PathList(rest)]
            ELSE [hr EXCEPT !.step_timer = t]

\* (mutant) v2's update running the timer down before it tests the path.
update_v2_eager(hr, dt) ==
    IF NotPath(hr.path) THEN [hr EXCEPT !.step_timer = hr.step_timer - dt]
    ELSE LET t == hr.step_timer - dt
         IN IF t > 0 THEN [hr EXCEPT !.step_timer = t]
            ELSE [hr EXCEPT !.gx = Head(hr.path.cells)[1],
                            !.gy = Head(hr.path.cells)[2],
                            !.path = PathList(Tail(hr.path.cells)),
                            !.step_timer = STEP_V2]

\* (mutant) v2's update replenishing the timer by one interval instead of
\* restarting it.
update_v2_add(hr, dt) ==
    IF NotPath(hr.path) THEN hr
    ELSE LET t == hr.step_timer - dt
         IN IF t > 0 THEN [hr EXCEPT !.step_timer = t]
            ELSE [hr EXCEPT !.gx = Head(hr.path.cells)[1],
                            !.gy = Head(hr.path.cells)[2],
                            !.path = PathList(Tail(hr.path.cells)),
                            !.step_timer = t + STEP_V2]

\* Hero.update(dt), v2 and v10: the timer counts down and restarts from
\* the per-tile interval.
update_v2(hr, dt) ==
    IF NotPath(hr.path) THEN hr
    ELSE LET t == hr.step_timer - dt
         IN IF t > 0 THEN [hr EXCEPT !.step_timer = t]
            ELSE [hr EXCEPT !.gx = Head(hr.path.cells)[1],
                            !.gy = Head(hr.path.cells)[2],
                            !.path = PathList(Tail(hr.path.cells)),
                            !.step_timer = STEP_V2]

update(v, hr, dt) == IF v = "v1" THEN update_v1(hr, dt) ELSE update_v2(hr, dt)

\* The exception the frame's drawing ends in, or "none".  v10's IsoMap.draw
\* reads self.enemies, which nothing ever assigns, before it reaches the
\* hero's path; v1 and v2 test hero.path before iterating it.
draw(v, hr) == IF v = "v10" THEN "AttributeError" ELSE "none"

\* What a handler leaves behind: the hero, and the exception if one rose.
Outcome(hr, e) == [hero |-> hr, err |-> e]

\* v1 and v10, after clamping: if (gx,gy) not in iso.blocked:
\* p = astar(...); if p: hero.set_path(p)
navigate_guarded(v, hr, blk, tgt) ==
    IF tgt \in blk THEN { Outcome(hr, "none") }
    ELSE { IF s.pc = "error" THEN Outcome(hr, "KeyError")
           ELSE IF s.result # <<>> THEN Outcome(set_path(hr, s.result), "none")
           ELSE Outcome(hr, "none") :
           s \in astar(v, <<hr.gx, hr.gy>>, tgt, blk) }

\* v2, after clamping: p = astar(...); hero.set_path(p)
navigate_always(v, hr, blk, tgt) ==
    { IF s.pc = "error" THEN Outcome(hr, "KeyError")
      ELSE Outcome(set_path(hr, s.result), "none") :
      s \in astar(v, <<hr.gx, hr.gy>>, tgt, blk) }

\* (mutant) every variant assigns whatever astar returns.
navigate_unguarded(v, hr, blk, tgt) == navigate_always(v, hr, blk, tgt)

\* The MOUSEBUTTONDOWN handler from the resolved cell on.
navigate(v, hr, blk, tgt) ==
    IF v = "v2" THEN navigate_always(v, hr, blk, tgt)
    ELSE navigate_guarded(v, hr, blk, tgt)


vars == <<variant, blocked, start, goal, search, hero, cam_x, cam_y, err, last, trip,
          proj, build, ui>>

searchVars == <<start, goal, search>>
gameVars == <<hero, cam_x, cam_y, err, last, trip>>
auxVars == <<proj, build, ui>>

\* ------------------------------------------------------- the main loop
\* The values of `last` and `trip` before any handler ran.
NoOp == [op |-> "none", dt |-> 0, cell |-> <<0, 0>>]
\* No projection call under way.
ProjIdle ==
    [pc |-> "entry", tw |-> TILE_W, th |-> TILE_H, cell |-> <<0, 0>>,
     pt |-> <<0, 0>>, ox |-> 0, oy |-> 0, out |-> <<0, 0>>]

\* Map construction over: the main loop runs.
BuildDone == [pc |-> "started", drawn |-> {}]

\* main's locals before the loop: panels hidden, debug overlay off, the
\* portal active, no enemies.
UiInit ==
    [show_inv |-> FALSE, show_dialog |-> FALSE, debug |-> FALSE,
     portal_active |-> TRUE, enemies |-> <<>>, pans |-> 0, running |-> TRUE]

NoTrip == [active |-> FALSE, route |-> <<>>, elapsed |-> 0, nticks |-> 0,
           slow |-> FALSE]

\* Frame times fed to Hero.update, in milliseconds: half a per-tile
\* interval, one interval, two intervals.
DtValues(v) == { Interval(v) \div 2, Interval(v), 2 * Interval(v) }

\* The screen point at which the variant's renderer centres cell c:
\* v1 centres the diamond on grid_to_screen; v2 and v10 draw the tile from
\* its top-left corner, so its centre is half a tile further.
DrawnCentre(v, c, cx, cy) ==
    IF v = "v1" THEN grid_to_screen(c[1], c[2], cx, cy)
    ELSE LET iso == grid_to_iso(v, c[1], c[2])
         IN <<cx + iso[1] + TILE_W \div 2, cy + iso[2] + TILE_H \div 2>>

\* The tiles the user clicks on.
ClickCells == { <<0, 0>>, <<0, 2>>, <<1, 0>>, <<2, 2>> }

\* Mouse positions fed to the click handler: the drawn centres of those
\* tiles, where they fall inside the window.
ClickPoints(v, cx, cy) ==
    { p \in { DrawnCentre(v, c, cx, cy) : c \in ClickCells } :
        0 <= p[1] /\ p[1] < W /\ 0 <= p[2] /\ p[2] < H }

\* The cells those clicks resolve to. In v10 a click outside safe_rect is
\* dropped before it is resolved.
ClickTargets(v, cx, cy) ==
    { ClickCell(v, p[1], p[2], cx, cy) :
        p \in { q \in ClickPoints(v, cx, cy) :
                  v = "v10" => InSafeRect(q[1], q[2]) } }

\* cam_x, cam_y as main sets them before the loop.
CamInit(v, hr) ==
    IF v = "v10"
    THEN LET hs == grid_to_iso(v, hr.gx, hr.gy)
         IN <<W \div 2 - (hs[1] + TILE_W \div 2),
              H \div 2 - (hs[2] + TILE_H \div 2)>>
    ELSE <<W \div 2, CAM_Y0>>

Init ==
    /\ variant \in Variants
    /\ blocked \in MapLayouts(variant)
    /\ start = <<0, 0>>
    /\ goal = <<0, 0>>
    /\ search = SearchIdle
    /\ hero = HeroInit(variant)
    /\ cam_x = CamInit(variant, HeroInit(variant))[1]
    /\ cam_y = CamInit(variant, HeroInit(variant))[2]
    /\ err = "none"
    /\ last = NoOp
    /\ trip = NoTrip
    /\ proj = ProjIdle
    /\ build = BuildDone
    /\ ui = UiInit

\* The route observed from an installation on an idle hero on.
TripAfterClick(hr, hr2) ==
    IF NotPath(hr.path) /\ ~NotPath(hr2.path)
    THEN [active |-> TRUE, route |-> hr2.path.cells, elapsed |-> 0,
          nticks |-> 0, slow |-> FALSE]
    ELSE NoTrip

TripAfterTick(v, tr, dt) ==
    IF tr.active
    THEN [tr EXCEPT
            !.elapsed = Min(tr.elapsed + dt, Len(tr.route) * Interval(v) + 1),
            !.nticks = Min(tr.nticks + 1, Len(tr.route) + 1),
            !.slow = tr.slow \/ dt < Interval(v)]
    ELSE tr

\* A left or right MOUSEBUTTONDOWN that resolves to cell tgt.
Click(tgt) ==
    /\ err = "none"
    /\ \E out \in navigate(variant, hero, blocked, tgt) :
          /\ hero' = out.hero
          /\ err' = out.err
    /\ last' = [op |-> "click", dt |-> 0, cell |-> tgt]
    /\ UNCHANGED <<auxVars, variant, blocked, searchVars, cam_x, cam_y, trip>>

\* The rest of a frame after the events: hero.update(dt), then the drawing.
Tick(dt) ==
    /\ err = "none"
    /\ hero' = update(variant, hero, dt)
    /\ err' = draw(variant, update(variant, hero, dt))
    /\ last' = [op |-> "update", dt |-> dt, cell |-> <<0, 0>>]
    /\ UNCHANGED <<auxVars, variant, blocked, searchVars, cam_x, cam_y, trip>>

Next ==
    \/ \E tgt \in ClickTargets(variant, cam_x, cam_y) : Click(tgt)
    \/ \E dt \in DtValues(variant) : Tick(dt)

Spec == Init /\ [][Next]_vars

\* ------------------------------------------------- the Hero class alone
\* Largest number of cells in a list handed to Hero.set_path.
MaxRoute == 4

\* Lists of cells that start at cell c and go on by axis-aligned unit steps,
\* as astar returns them, of at most n cells.
RECURSIVE RoutesFrom(_, _)
RoutesFrom(c, n) ==
    IF n <= 1 THEN { <<c>> }
    ELSE { <<c>> } \cup
         { <<c>> \o r : r \in UNION { RoutesFrom(nb, n - 1) : nb \in neighbors(c, {}) } }

InitHero ==
    /\ variant \in Variants
    /\ blocked = {}
    /\ start = <<0, 0>>
    /\ goal = <<0, 0>>
    /\ search = SearchIdle
    /\ hero = HeroInit(variant)
    /\ cam_x = 0
    /\ cam_y = 0
    /\ err = "none"
    /\ last = NoOp
    /\ trip = NoTrip
    /\ proj = ProjIdle
    /\ build = BuildDone
    /\ ui = UiInit

\* hero.set_path(p) with a list astar can return from the hero's cell.
HeroSetPath(p) ==
    /\ hero' = set_path(hero, p)
    /\ trip' = TripAfterClick(hero, set_path(hero, p))
    /\ last' = [op |-> "set_path", dt |-> 0, cell |-> <<0, 0>>]
    /\ UNCHANGED <<auxVars, variant, blocked, searchVars, cam_x, cam_y, err>>

\* hero.update(dt)
HeroUpdate(dt) ==
    /\ hero' = update(variant, hero, dt)
    /\ trip' = TripAfterTick(variant, trip, dt)
    /\ last' = [op |-> "update", dt |-> dt, cell |-> <<0, 0>>]
    /\ UNCHANGED <<auxVars, variant, blocked, searchVars, cam_x, cam_y, err>>

NextHero ==
    \/ \E p \in RoutesFrom(<<hero.gx, hero.gy>>, MaxRoute) \cup { <<>> } :
          HeroSetPath(p)
    \/ \E dt \in DtValues(variant) : HeroUpdate(dt)

SpecHero == InitHero /\ [][NextHero]_vars

\* ---------------------------------------------- properties of the Hero
\* The hero has no pending cells.
Idle == hero.path.none \/ hero.path.cells = <<>>

\* The per-tile interval of the running variant, in milliseconds.
TileInterval == IF variant = "v1" THEN 120 ELSE 100

C8_Original ==
    (last.op = "set_path" /\ ~Idle) => hero.step_timer = TileInterval

\* C8 amended: set_path never touches the step timer; the timer keeps the
\* value it held before the assignment.
C8_TimerKept ==
    [][last'.op = "set_path" => hero'.step_timer = hero.step_timer]_vars

\* C8 witness: a non-empty path just installed over an interrupted route,
\* the timer holding a leftover that is neither 0 nor one interval.
C8_Witness ==
    /\ last.op = "set_path"
    /\ ~Idle
    /\ hero.step_timer # 0
    /\ hero.step_timer # TileInterval

\* ------------------------------------------------ the search, step by step

\* The starts of the searches examined: one quadrant of the grid.  astar
\* treats the four directions alike and the obstacle layouts and goals range
\* over the whole grid, so every other start is the mirror image of one of
\* these.
StartCells == { c \in Cells : 2 * c[1] < GRID_W /\ 2 * c[2] < GRID_H }

InitAstar ==
    /\ variant \in Variants
    /\ blocked \in Layouts
    /\ start \in StartCells
    /\ goal \in Cells
    /\ search = SearchIdle
    /\ hero = [gx |-> 0, gy |-> 0, path |-> PathNone, step_timer |-> 0]
    /\ cam_x = 0
    /\ cam_y = 0
    /\ err = "none"
    /\ last = NoOp
    /\ trip = NoTrip
    /\ proj = ProjIdle
    /\ build = BuildDone
    /\ ui = UiInit

AstarCall ==
    /\ search.pc = "entry"
    /\ search' = AstarEnter(variant, start, goal, blocked)
    /\ UNCHANGED <<auxVars, variant, blocked, start, goal, gameVars>>

AstarLoop ==
    /\ search.pc = "loop"
    /\ search' \in AstarSucc(search, goal, blocked)
    /\ UNCHANGED <<auxVars, variant, blocked, start, goal, gameVars>>

NextAstar == AstarCall \/ AstarLoop

SpecAstar == InitAstar /\ [][NextAstar]_vars

\* ------------------------------------------------- properties of astar
\* The cells one axis-aligned unit step from c that are in the grid and
\* not blocked.
FreeSteps(c, blk) ==
    { n \in Cells \ blk : Abs(n[1] - c[1]) + Abs(n[2] - c[2]) = 1 }

\* Breadth-first distance: `frontier` are the cells at distance d.
RECURSIVE BfsDist(_, _, _, _, _)
BfsDist(frontier, seen, gl, blk, d) ==
    IF gl \in frontier THEN d
    ELSE IF frontier = {} THEN -1
    ELSE LET nxt == UNION { FreeSteps(c, blk) : c \in frontier } \ seen
         IN BfsDist(nxt, seen \cup nxt, gl, blk, d + 1)

\* The number of steps of a shortest 4-connected route from st to gl through
\* free cells, or -1 when there is none.
ShortestDist(st, gl, blk) == BfsDist({st}, {st}, gl, blk, 0)

\* The goal differs from the start and no route of free cells leads to it.
Unreachable == start # goal /\ ShortestDist(start, goal, blocked) = -1

\* The calls whose goal is out of reach.
InitUnreachable == InitAstar /\ Unreachable

\* The search on the calls whose goal is out of reach; the interpreter keeps
\* running the loop until the function returns.
SpecAstarFair == InitUnreachable /\ [][NextAstar]_vars /\ WF_vars(NextAstar)

\* C1: when the goal is reachable from the start, the path astar returns has
\* exactly d + 1 cells, d the breadth-first distance, whatever the tie order.
C1_ShortestPath ==
    (Returned(search) /\ ShortestDist(start, goal, blocked) >= 0)
        => Len(search.result) = ShortestDist(start, goal, blocked) + 1

\* C1 witness: a search that returned a route forced around obstacles
\* (longer than the Manhattan distance).
C1_Witness ==
    /\ search.pc = "ret_found"
    /\ ShortestDist(start, goal, blocked) > h(start, goal)
    /\ Len(search.result) = ShortestDist(start, goal, blocked) + 1

\* C2: a non-empty returned path starts at the start, ends at the goal, moves
\* by single axis-aligned unit steps, and after its first cell stays inside
\* the grid and off the obstacles.
C2_PathValid ==
    (Returned(search) /\ search.result # <<>>) =>
        LET p == search.result
        IN /\ p[1] = start
           /\ p[Len(p)] = goal
           /\ \A i \in 1 .. Len(p) - 1 :
                 Abs(p[i + 1][1] - p[i][1]) + Abs(p[i + 1][2] - p[i][2]) = 1
           /\ \A i \in 2 .. Len(p) : p[i] \in Cells /\ p[i] \notin blocked

\* C2 witness: a returned path of at least three cells on a map with
\* obstacles.
C2_Witness ==
    /\ search.pc = "ret_found"
    /\ Len(search.result) >= 3
    /\ blocked # {}

NoSearch ==
    /\ search.pc \in {"entry", "ret_blocked"}
    /\ search.open_set = {}
    /\ DOMAIN search.g = {}
    /\ DOMAIN search.came = {}

\* C4 as stated: in every variant a blocked goal yields the empty path and
\* no search.
C4_Original ==
    goal \in blocked => NoSearch /\ (Returned(search) => search.result = <<>>)

\* C4 amended: in v2 and v10 a blocked goal other than the start yields the
\* empty path and no search; v1 has no such test and returns the empty path
\* only once the open set is exhausted; a blocked goal equal to the start
\* yields [start] in every variant.
C4_BlockedGoal ==
    goal \in blocked =>
        IF start = goal
        THEN Returned(search) => search.result = <<start>>
        ELSE IF variant \in {"v2", "v10"}
        THEN NoSearch /\ (Returned(search) => search.result = <<>>)
        ELSE Returned(search) =>
                search.pc = "ret_exhausted" /\ search.result = <<>>

\* C4 witness: v2 returned at the blocked-goal test.
C4_Witness ==
    /\ variant = "v2"
    /\ goal \in blocked
    /\ start # goal
    /\ search.pc = "ret_blocked"

\* C5: with start equal to goal, on a free cell, astar returns the path of
\* that one cell, in every variant.
C5_SameCell ==
    (start = goal /\ start \notin blocked /\ Returned(search))
        => search.result = <<start>>

\* C5 witness: the first variant, which has no start == goal test, returned
\* from its loop with start equal to goal.
C5_Witness ==
    /\ variant = "v1"
    /\ start = goal
    /\ start \notin blocked
    /\ search.pc = "ret_found"

\* ------------------------------------------ properties of the main loop
\* q is a shortest route of free cells from cell cur to cell tgt, without
\* its leading cell cur.
FreshRoute(q, cur, tgt) ==
    /\ Len(q) = ShortestDist(cur, tgt, blocked)
    /\ q # <<>> =>
         /\ q[Len(q)] = tgt
         /\ Abs(q[1][1] - cur[1]) + Abs(q[1][2] - cur[2]) = 1
         /\ \A i \in 1 .. Len(q) - 1 :
               Abs(q[i + 1][1] - q[i][1]) + Abs(q[i + 1][2] - q[i][2]) = 1
         /\ \A i \in 1 .. Len(q) : q[i] \in Cells \ blocked

\* C9 as stated: the hero's path is None or a non-empty list.
C9_Original == hero.path.none \/ hero.path.cells # <<>>

\* C9 amended: the path may be the empty list.  The update that consumes the
\* last cell leaves the empty list in v2 and v10 and None only in v1, and
\* every assignment a click makes leaves a list, empty when nothing remains
\* after the trim.
C9_PathShape ==
    /\ [][(/\ last'.op = "update"
           /\ ~hero.path.none
           /\ Len(hero.path.cells) = 1
           /\ hero'.path # hero.path)
            => IF variant = "v1"
               THEN hero'.path.none
               ELSE ~hero'.path.none /\ hero'.path.cells = <<>>]_vars
    /\ [][(last'.op = "click" /\ hero'.path # hero.path)
            => ~hero'.path.none]_vars

\* C9 witness: v2 after the update that consumed the last cell, the path an
\* empty list.
C9_Witness ==
    /\ variant = "v2"
    /\ last.op = "update"
    /\ ~hero.path.none
    /\ hero.path.cells = <<>>

\* The cell clicked last can be walked to from the hero's cell.
TargetReachable ==
    /\ last.cell \notin blocked
    /\ ShortestDist(<<hero.gx, hero.gy>>, last.cell, blocked) >= 0

\* C10 as stated: after a click the hero holds the fresh route to the clicked
\* cell, and no route at all when that cell is blocked or out of reach.
C10_Original ==
    last.op = "click" =>
        IF TargetReachable
        THEN /\ ~hero.path.none
             /\ FreshRoute(hero.path.cells, <<hero.gx, hero.gy>>, last.cell)
        ELSE Idle

\* C10 amended: a click on a free, reachable cell replaces whatever path was
\* held by the fresh shortest route from the hero's cell, trimmed of that
\* cell; a click on a blocked or unreachable cell leaves the empty list in
\* v2, and leaves the path held before untouched in v1 and v10.
C10_LatestWins ==
    [][last'.op = "click" =>
         /\ hero'.gx = hero.gx
         /\ hero'.gy = hero.gy
         /\ IF /\ last'.cell \notin blocked
               /\ ShortestDist(<<hero.gx, hero.gy>>, last'.cell, blocked) >= 0
            THEN /\ ~hero'.path.none
                 /\ FreshRoute(hero'.path.cells, <<hero.gx, hero.gy>>,
                               last'.cell)
            ELSE IF variant = "v2"
            THEN ~hero'.path.none /\ hero'.path.cells = <<>>
            ELSE hero'.path = hero.path
      ]_vars

\* C10 witness: v1 mid-route, just after a click on an obstacle, still
\* holding the cells of the earlier route.
C10_Witness ==
    /\ variant = "v1"
    /\ last.op = "click"
    /\ last.cell \in blocked
    /\ ~Idle

\* ------------------------------------------ the projection functions
\* Camera offsets tried: negative, zero, and the demos' initial W // 2 and 160.
Offsets == { -7, 0, CAM_Y0, W \div 2 }

\* Screen points tried, relative to the offset: cell centres, points one
\* pixel off a centre, points halfway between centres, points left of and
\* above the origin, and a point far outside the grid.
ProjPoints ==
    { <<32, 16>>, <<31, 16>>, <<16, 8>>, <<48, 24>>, <<-1, 0>>, <<0, -5>>,
      <<-33, 17>>, <<100, 7>>, <<2000, 300>> }

\* Tile sizes tried: the demos' 64 x 32, another even pair, an odd pair and
\* the smallest pair.
TileSizes == { <<TILE_W, TILE_H>>, <<6, 4>>, <<5, 3>>, <<1, 1>> }

\* The forward and inverse mappings with the tile width tw and height th in
\* place of TILE_W and TILE_H.
grid_to_screen_tiles(tw, th, gx, gy, ox, oy) ==
    <<(gx - gy) * (tw \div 2) + ox, (gx + gy) * (th \div 2) + oy>>

screen_to_grid_tiles(tw, th, sx, sy, ox, oy) ==
    LET x == sx - ox
        y == sy - oy
    IN <<TruncDiv(y * tw + x * th, tw * th),
         TruncDiv(y * tw - x * th, tw * th)>>

grid_to_iso_tiles(tw, th, v, gx, gy) ==
    LET origin == IF v = "v10" THEN (GRID_H - 1) * (tw \div 2) ELSE 0
    IN <<(gx - gy) * (tw \div 2) + origin, (gx + gy) * (th \div 2)>>

iso_to_grid_tiles(tw, th, v, ix0, iy0) ==
    LET origin == IF v = "v10" THEN (GRID_H - 1) * (tw \div 2) ELSE 0
        ix == ix0 - origin
    IN <<RoundDiv(ix * th + iy0 * tw, tw * th),
         RoundDiv(iy0 * tw - ix * th, tw * th)>>

\* cell -> screen -> cell with the variant's own pair of functions.
RoundTrip(v, c, ox, oy) ==
    IF v = "v1"
    THEN LET p == grid_to_screen(c[1], c[2], ox, oy)
         IN screen_to_grid(p[1], p[2], ox, oy)
    ELSE LET p == grid_to_iso(v, c[1], c[2])
         IN iso_to_grid(v, p[1], p[2])

RoundTripTiles(tw, th, v, c, ox, oy) ==
    IF v = "v1"
    THEN LET p == grid_to_screen_tiles(tw, th, c[1], c[2], ox, oy)
         IN screen_to_grid_tiles(tw, th, p[1], p[2], ox, oy)
    ELSE LET p == grid_to_iso_tiles(tw, th, v, c[1], c[2])
         IN iso_to_grid_tiles(tw, th, v, p[1], p[2])

\* The variant's screen-to-cell function on screen point pt under camera
\* offset (ox, oy); v2 and v10 callers subtract the camera themselves.
Inverse(v, pt, ox, oy) ==
    IF v = "v1" THEN screen_to_grid(pt[1], pt[2], ox, oy)
    ELSE iso_to_grid(v, pt[1] - ox, pt[2] - oy)

InitProj ==
    /\ variant \in Variants
    /\ blocked = {}
    /\ start = <<0, 0>>
    /\ goal = <<0, 0>>
    /\ search = SearchIdle
    /\ hero = HeroInit(variant)
    /\ cam_x = 0
    /\ cam_y = 0
    /\ err = "none"
    /\ last = NoOp
    /\ trip = NoTrip
    /\ \E t \in TileSizes, c \in Cells, q \in ProjPoints,
          x \in Offsets, y \in Offsets :
          proj = [pc |-> "entry", tw |-> t[1], th |-> t[2], cell |-> c,
                  pt |-> <<q[1] + x, q[2] + y>>, ox |-> x, oy |-> y,
                  out |-> <<0, 0>>]
    /\ build = BuildDone
    /\ ui = UiInit

\* The tile sizes of the call are the demos' own.
RealTiles == proj.tw = TILE_W /\ proj.th = TILE_H

ProjUnchanged ==
    UNCHANGED <<variant, blocked, searchVars, gameVars, build, ui>>

\* cell -> screen -> cell.
ProjRoundTrip ==
    /\ proj.pc = "entry"
    /\ RealTiles
    /\ proj' = [proj EXCEPT !.pc = "round_trip",
                  !.out = RoundTrip(variant, proj.cell, proj.ox, proj.oy)]
    /\ ProjUnchanged

\* cell -> screen -> cell with other tile sizes.
ProjRoundTripTiles ==
    /\ proj.pc = "entry"
    /\ proj' = [proj EXCEPT !.pc = "round_trip_tiles",
                  !.out = RoundTripTiles(proj.tw, proj.th, variant, proj.cell,
                                         proj.ox, proj.oy)]
    /\ ProjUnchanged

\* screen point -> cell.
ProjInverse ==
    /\ proj.pc = "entry"
    /\ RealTiles
    /\ proj' = [proj EXCEPT !.pc = "inverse",
                  !.out = Inverse(variant, proj.pt, proj.ox, proj.oy)]
    /\ ProjUnchanged

\* A click on the point where the renderer puts the centre of the cell.
ProjClick ==
    /\ proj.pc = "entry"
    /\ RealTiles
    /\ LET p == DrawnCentre(variant, proj.cell, proj.ox, proj.oy)
       IN proj' = [proj EXCEPT !.pc = "click",
                     !.out = ClickCell(variant, p[1], p[2], proj.ox, proj.oy)]
    /\ ProjUnchanged

NextProj == ProjRoundTrip \/ ProjRoundTripTiles \/ ProjInverse \/ ProjClick

SpecProj == InitProj /\ [][NextProj]_vars

\* -------------------------------- properties of the projection functions
\* C11: for every in-bounds cell and every integer camera offset, cell ->
\* screen -> cell with the variant's own functions returns the cell.
C11_RoundTrip == proj.pc = "round_trip" => proj.out = proj.cell

\* C11 witness: v10's round trip of the far corner cell, through the
\* ISO_ORIGIN_X shift.
C11_Witness ==
    /\ variant = "v10"
    /\ proj.pc = "round_trip"
    /\ proj.cell = <<GRID_W - 1, GRID_H - 1>>
    /\ proj.out = proj.cell

\* C12 as stated: the round trip returns the cell for every positive integer
\* tile width and height, odd values included.
C12_Original == proj.pc = "round_trip_tiles" => proj.out = proj.cell

\* C12 failing case: with 5 x 3 tiles the first variant maps cell (0, 1) to
\* the screen and back to (0, 0).
C12_Witness ==
    /\ variant = "v1"
    /\ proj.pc = "round_trip_tiles"
    /\ proj.tw = 5
    /\ proj.th = 3
    /\ proj.cell = <<0, 1>>
    /\ proj.out = <<0, 0>>

\* What does hold for other tile sizes: the round trip returns the cell
\* whenever the tile width and height are both even.
C12_EvenTiles ==
    (proj.pc = "round_trip_tiles" /\ proj.tw % 2 = 0 /\ proj.th % 2 = 0)
        => proj.out = proj.cell

\* g is n / d rounded to the nearest integer, halves to the even one.
IsRounded(g, n, d) ==
    /\ 2 * n - d <= 2 * d * g
    /\ 2 * d * g <= 2 * n + d
    /\ (2 * d * g = 2 * n - d \/ 2 * d * g = 2 * n + d) => g % 2 = 0

\* C13 as stated: in every variant the screen-to-cell function returns the
\* rounded quotients ((sy-oy)/(TILE_H/2) +- (sx-ox)/(TILE_W/2)) / 2, not
\* clamped to the grid; v10's offset includes its origin shift.
C13_Original ==
    proj.pc = "inverse" =>
        LET x == proj.pt[1] - proj.ox
                   - (IF variant = "v10" THEN (GRID_H - 1) * 32 ELSE 0)
            y == proj.pt[2] - proj.oy
        IN /\ IsRounded(proj.out[1], y * 64 + x * 32, 64 * 32)
           /\ IsRounded(proj.out[2], y * 64 - x * 32, 64 * 32)

\* C13 failing case: the first variant truncates; one pixel left of the
\* centre of cell (1, 0) it answers (0, 0).
C13_Witness ==
    /\ variant = "v1"
    /\ proj.pc = "inverse"
    /\ proj.pt = <<31 + proj.ox, 16 + proj.oy>>
    /\ proj.out = <<0, 0>>

\* C19 as stated: a click on the point where the renderer puts the centre
\* of cell c is resolved by the variant's click handler to c.
C19_Original == proj.pc = "click" => proj.out = proj.cell

\* C19 failing case: v10 resolves a click on the drawn centre of cell (0, 0)
\* to cell (1, 0).
C19_Witness ==
    /\ variant = "v10"
    /\ proj.pc = "click"
    /\ proj.cell = <<0, 0>>
    /\ proj.out = <<1, 0>>

\* What does hold: the first variant resolves the click to c, and
\* v10 to the cell one column further (clamped at the edge).
C19_FirstVariant ==
    proj.pc = "click" =>
        /\ variant = "v1" => proj.out = proj.cell
        /\ variant = "v10" =>
              proj.out = <<IF proj.cell[1] + 1 > GRID_W - 1 THEN GRID_W - 1
                           ELSE proj.cell[1] + 1, proj.cell[2]>>

\* ------------------------------------- further properties of the Hero
\* C14: an update of a hero with no pending path (None or the empty list)
\* changes neither its cell, nor its path, nor its step timer, whatever dt.
C14_IdleTick ==
    [][(last'.op = "update" /\ Idle) => hero' = hero]_vars

\* C14 witness: v2 after an update of an idle hero whose path is the empty
\* list and whose timer holds the leftover of an interrupted route.
C14_Witness ==
    /\ variant = "v2"
    /\ last.op = "update"
    /\ ~hero.path.none
    /\ hero.path.cells = <<>>
    /\ hero.step_timer = 50


\* ------------------------------------------- the main loop, every event
\* Largest number of frames in which a camera key is held.
MaxPans == 1
\* Largest number of enemies one v10 wave adds, and the most ever alive.
MaxSpawn == 1
MaxEnemies == 1

\* The single obstacle layout the full loop is run on: the cells drawn by
\* the generator, filtered as the variant's constructor filters them.
LoopDrawn == { <<0, 1>>, <<1, 2>> }

\* (mutant) the I key also drops the route.
ToggleInv_drop(u, hr) == [ui |-> [u EXCEPT !.show_inv = ~u.show_inv],
                          hero |-> [hr EXCEPT !.path = PathList(<<>>)]]

\* K_i: show_inv = not show_inv.
ToggleInv(u, hr) == [ui |-> [u EXCEPT !.show_inv = ~u.show_inv], hero |-> hr]

\* v10 randrange(-4, 5) around the portal, on the 40 x 40 map a tenth of
\* its width; on the small grid the cells next to the portal.
SpawnReach == 1

\* The cells spawn_wave accepts: in range of the portal, on the map, not
\* blocked, not the hero's cell.
SpawnCells(hr, blk) ==
    { c \in Cells :
        /\ Abs(c[1] - portal[1]) <= SpawnReach
        /\ Abs(c[2] - portal[2]) <= SpawnReach
        /\ c \notin blk
        /\ c # <<hr.gx, hr.gy>> }

\* What one call of spawn_wave can append: the random draws decide which
\* accepted cells, in which order, and how many.
Waves(hr, blk) ==
    UNION { [1..n -> SpawnCells(hr, blk)] : n \in 0..MaxSpawn }

\* v2's fixed wave: the six offsets around the portal, kept when on the map
\* and not blocked, in the order of the list.
WaveOffsets == << <<-1, 0>>, <<1, 0>>, <<0, -1>>, <<0, 1>>, <<-2, 0>>, <<0, 2>> >>

RECURSIVE FilterWave(_, _)
FilterWave(offs, blk) ==
    IF offs = <<>> THEN <<>>
    ELSE LET c == <<portal[1] + Head(offs)[1], portal[2] + Head(offs)[2]>>
             rest == FilterWave(Tail(offs), blk)
         IN IF c \in Cells /\ c \notin blk THEN <<c>> \o rest ELSE rest

\* The camera keys held during a frame.
HeldSets == { {}, {"left"}, {"right"}, {"up"}, {"down"}, {"left", "shift"} }

\* The distance the camera moves in a frame of dt milliseconds: v1 and v10
\* truncate it to a whole pixel, v2 adds the float as it is.
PanStep(v, dt, shift) ==
    IF v = "v1" THEN TruncDiv(360 * dt, 1000)
    ELSE IF v = "v2" THEN (360 * dt * (IF shift THEN 175 ELSE 100)) \div 100000
    ELSE TruncDiv((IF shift THEN 560 ELSE 360) * dt, 1000)

\* Frame times of the full loop: one per-tile interval, for which v2's
\* float step is a whole number of pixels (36 or 63).
LoopDts(v) == { Interval(v) }

\* The loop is between two events of a frame: no exception ended it, the
\* frame's key polling has not run yet, and the frame that followed an
\* ESCAPE or QUIT has not completed.
InEvents ==
    /\ err = "none"
    /\ build.pc = "started"
    /\ last.op # "pan"
    /\ ~(~ui.running /\ last.op = "update")

KeyOp(name) == [op |-> name, dt |-> 0, cell |-> <<0, 0>>]

LoopFixed == UNCHANGED <<variant, blocked, searchVars, trip, proj, build>>

\* pygame.QUIT or K_ESCAPE: running = False; the frame is still completed.
KeyEscape ==
    /\ InEvents
    /\ ui.running
    /\ ui' = [ui EXCEPT !.running = FALSE]
    /\ last' = KeyOp("key_escape")
    /\ LoopFixed
    /\ UNCHANGED <<hero, cam_x, cam_y, err>>

KeyI ==
    /\ InEvents
    /\ ui' = ToggleInv(ui, hero).ui
    /\ hero' = ToggleInv(ui, hero).hero
    /\ last' = KeyOp("key_i")
    /\ LoopFixed
    /\ UNCHANGED <<cam_x, cam_y, err>>

\* K_o: show_dialog = not show_dialog.
KeyO ==
    /\ InEvents
    /\ ui' = [ui EXCEPT !.show_dialog = ~ui.show_dialog]
    /\ last' = KeyOp("key_o")
    /\ LoopFixed
    /\ UNCHANGED <<hero, cam_x, cam_y, err>>

\* v10 K_F1: debug = not debug.
KeyF1 ==
    /\ InEvents
    /\ variant = "v10"
    /\ ui' = [ui EXCEPT !.debug = ~ui.debug]
    /\ last' = KeyOp("key_f1")
    /\ LoopFixed
    /\ UNCHANGED <<hero, cam_x, cam_y, err>>

\* v10 K_c: centre the camera on the hero.
KeyC ==
    /\ InEvents
    /\ variant = "v10"
    /\ cam_x' = CamInit(variant, hero)[1]
    /\ cam_y' = CamInit(variant, hero)[2]
    /\ last' = KeyOp("key_c")
    /\ LoopFixed
    /\ UNCHANGED <<hero, ui, err>>

\* v10 K_t: hero.gx, hero.gy = portal; hero.path.clear(); centre the camera.
\* hero.path is None until the first set_path, and None has no clear():
\* the handler raises after the cell was assigned.
KeyT ==
    /\ InEvents
    /\ variant = "v10"
    /\ LET moved == [hero EXCEPT !.gx = portal[1], !.gy = portal[2]]
       IN IF hero.path = PathNone
          THEN /\ hero' = moved
               /\ err' = "AttributeError: NoneType.clear"
               /\ UNCHANGED <<cam_x, cam_y>>
          ELSE /\ hero' = [moved EXCEPT !.path = PathList(<<>>)]
               /\ cam_x' = CamInit(variant, moved)[1]
               /\ cam_y' = CamInit(variant, moved)[2]
               /\ err' = err
    /\ last' = KeyOp("key_t")
    /\ LoopFixed
    /\ UNCHANGED ui

\* K_e. v2: on the portal cell while it is active, deactivate it and
\* replace the enemies by the fixed wave. v10: on or next to the portal,
\* spawn_wave appends to the enemies. v1 has no such key.
KeyE ==
    /\ InEvents
    /\ variant # "v1"
    /\ IF variant = "v2"
       THEN ui' = IF <<hero.gx, hero.gy>> = portal /\ ui.portal_active
                  THEN [ui EXCEPT !.portal_active = FALSE,
                                  !.enemies = FilterWave(WaveOffsets, blocked)]
                  ELSE ui
       ELSE IF Abs(hero.gx - portal[1]) <= 1 /\ Abs(hero.gy - portal[2]) <= 1
            THEN \E w \in Waves(hero, blocked) :
                    /\ Len(ui.enemies) + Len(w) <= MaxEnemies
                    /\ ui' = [ui EXCEPT !.enemies = ui.enemies \o w]
            ELSE ui' = ui
    /\ last' = KeyOp("key_e")
    /\ LoopFixed
    /\ UNCHANGED <<hero, cam_x, cam_y, err>>

\* A mouse click among the events of a frame.
LoopClick(tgt) == InEvents /\ Click(tgt)

\* After the events: keys = pygame.key.get_pressed() and the camera moves.
Pan(dt, held) ==
    /\ InEvents
    /\ held # {} => ui.pans < MaxPans
    /\ LET s == PanStep(variant, dt, "shift" \in held)
       IN /\ cam_x' = cam_x + (IF "left" \in held THEN s ELSE 0)
                            - (IF "right" \in held THEN s ELSE 0)
          /\ cam_y' = cam_y + (IF "up" \in held THEN s ELSE 0)
                            - (IF "down" \in held THEN s ELSE 0)
    /\ ui' = [ui EXCEPT !.pans = IF held = {} THEN @ ELSE @ + 1]
    /\ last' = [op |-> "pan", dt |-> dt, cell |-> <<0, 0>>]
    /\ LoopFixed
    /\ UNCHANGED <<hero, err>>

\* Then hero.update(dt) and the drawing, with the frame's dt.
LoopTick == last.op = "pan" /\ Tick(last.dt)

InitLoop ==
    /\ Init
    /\ blocked = BuildBlocked(variant, LoopDrawn)

NextLoop ==
    \/ KeyEscape
    \/ KeyI
    \/ KeyO
    \/ KeyF1
    \/ KeyC
    \/ KeyT
    \/ KeyE
    \/ \E tgt \in ClickTargets(variant, cam_x, cam_y) : LoopClick(tgt)
    \/ \E dt \in LoopDts(variant), held \in HeldSets : Pan(dt, held)
    \/ LoopTick

SpecLoop == InitLoop /\ [][NextLoop]_vars


\* The events that are neither a click nor the frame's update.
OtherOps ==
    { "key_escape", "key_i", "key_o", "key_f1", "key_c", "key_e", "pan" }

C20_Original ==
    variant = "v10" => err # "AttributeError: NoneType.clear"

\* T pressed before any click: the path is still None when clear() is
\* called on it.
C20_Witness ==
    /\ variant = "v10"
    /\ last.op = "key_t"
    /\ hero.path = PathNone
    /\ err = "AttributeError: NoneType.clear"


\* ------------------------------------------------- map construction
\* No Hero object exists yet.
NoHero == [gx |-> -1, gy |-> -1, path |-> PathNone, step_timer |-> 0]

InitMap ==
    /\ variant \in Variants
    /\ blocked = {}
    /\ build = [pc |-> "drawing", drawn |-> {}]
    /\ hero = NoHero
    /\ start = <<0, 0>>
    /\ goal = <<0, 0>>
    /\ search = SearchIdle
    /\ cam_x = 0
    /\ cam_y = 0
    /\ err = "none"
    /\ last = NoOp
    /\ trip = NoTrip
    /\ proj = ProjIdle
    /\ ui = UiInit

\* One turn of the loop in IsoMap.__init__: a cell is drawn anywhere on
\* the map and added unless it is in the exclusion list. The draws fall on
\* at most MaxBlocked distinct cells.
MapDraw(c) ==
    /\ build.pc = "drawing"
    /\ Cardinality(build.drawn \cup {c}) <= MaxBlocked
    /\ build' = [build EXCEPT !.drawn = @ \cup {c}]
    /\ blocked' = IF c \in Exclusions(variant) THEN blocked
                  ELSE blocked \cup {c}
    /\ UNCHANGED <<variant, searchVars, gameVars, proj, ui>>

\* main after IsoMap(): v10 discards the 3 x 3 cells around the portal from
\* the obstacle set; then the hero is created and the camera placed.
MainSetup ==
    /\ build.pc = "drawing"
    /\ build' = [build EXCEPT !.pc = "started"]
    /\ blocked' = IF variant = "v10" THEN blocked \ PortalArea ELSE blocked
    /\ hero' = HeroInit(variant)
    /\ cam_x' = CamInit(variant, HeroInit(variant))[1]
    /\ cam_y' = CamInit(variant, HeroInit(variant))[2]
    /\ UNCHANGED <<variant, searchVars, err, last, trip, proj, ui>>

NextMap ==
    \/ \E c \in Cells : MapDraw(c)
    \/ MainSetup

SpecMap == InitMap /\ [][NextMap]_vars

\* Stepwise construction gives the layout BuildBlocked computes at once.
MapAgrees ==
    build.pc = "started" => blocked = BuildBlocked(variant, build.drawn)

C16_DefaultCell ==
    (build.pc = "started" /\ variant # "v10")
        => <<hero.gx, hero.gy>> \notin blocked


\* ------------------------------------------------ movement and obstacles
\* Cells one axis-aligned step apart.
Adjacent(a, b) == Abs(a[1] - b[1]) + Abs(a[2] - b[2]) = 1

\* The pending cells are free cells of the map, each one step from the one
\* before it, the first one step from the hero's cell.
PendingClear ==
    LET p == hero.path.cells
    IN /\ \A i \in 1..Len(p) : p[i] \in Cells /\ p[i] \notin blocked
       /\ \A i \in 1..(Len(p) - 1) : Adjacent(p[i], p[i + 1])
       /\ p # <<>> => Adjacent(<<hero.gx, hero.gy>>, p[1])

\* C17: under any interleaving of clicks and frames the pending path runs
\* over free in-bounds cells, 4-adjacent to one another and to the hero's
\* cell, and every cell change made by Hero.update is one axis-aligned step
\* onto a free in-bounds cell.
C17_NeverThroughObstacles ==
    /\ []PendingClear
    /\ [][(last'.op = "update" /\ <<hero'.gx, hero'.gy>> # <<hero.gx, hero.gy>>)
            => /\ Adjacent(<<hero.gx, hero.gy>>, <<hero'.gx, hero'.gy>>)
               /\ <<hero'.gx, hero'.gy>> \in Cells
               /\ <<hero'.gx, hero'.gy>> \notin blocked]_vars

\* The hero part-way along a route that had to bend round an obstacle: it
\* has left its first cell, cells are still pending, and the straight line
\* to the end of the route is blocked.
C17_Witness ==
    /\ variant = "v1"
    /\ last.op = "update"
    /\ <<hero.gx, hero.gy>> # HeroDefault
    /\ Len(hero.path.cells) >= 2
    /\ \E c \in blocked :
          /\ Adjacent(c, <<hero.gx, hero.gy>>)
          /\ Adjacent(c, hero.path.cells[Len(hero.path.cells)])


\* ------------------------------------------- a route walked to its end
\* The frame time is fixed for the whole run and kept in last.dt.
InitArrive ==
    /\ variant \in Variants
    /\ blocked = {}
    /\ start = <<0, 0>>
    /\ goal = <<0, 0>>
    /\ search = SearchIdle
    /\ hero = HeroInit(variant)
    /\ cam_x = 0
    /\ cam_y = 0
    /\ err = "none"
    /\ \E d \in DtValues(variant) : last = [op |-> "none", dt |-> d, cell |-> <<0, 0>>]
    /\ trip = NoTrip
    /\ proj = ProjIdle
    /\ build = BuildDone
    /\ ui = UiInit

\* An earlier click, so that the click observed may arrive mid-route.
ArriveEarlier(p) ==
    /\ last.op = "none"
    /\ hero' = set_path(hero, p)
    /\ last' = [last EXCEPT !.op = "set_path"]
    /\ UNCHANGED <<auxVars, variant, blocked, searchVars, cam_x, cam_y, err, trip>>

\* The click observed: astar returned the non-empty route p from the
\* hero's cell and the handler hands it to set_path. No click follows it.
ArriveClick(p) ==
    /\ ~trip.active
    /\ hero' = set_path(hero, p)
    /\ trip' = [NoTrip EXCEPT !.active = TRUE, !.route = p]
    /\ last' = [last EXCEPT !.op = "click", !.cell = p[Len(p)]]
    /\ UNCHANGED <<auxVars, variant, blocked, searchVars, cam_x, cam_y, err>>

\* hero.update(dt) with the run's dt.
ArriveUpdate ==
    /\ last.op # "none"
    /\ hero' = update(variant, hero, last.dt)
    /\ last' = [last EXCEPT !.op = "update"]
    /\ UNCHANGED <<auxVars, variant, blocked, searchVars, cam_x, cam_y, err, trip>>

NextArrive ==
    \/ \E p \in RoutesFrom(<<hero.gx, hero.gy>>, MaxRoute) : ArriveEarlier(p)
    \/ \E p \in RoutesFrom(<<hero.gx, hero.gy>>, MaxRoute) : ArriveClick(p)
    \/ ArriveUpdate

\* The main loop calls hero.update once per frame for as long as it runs.
SpecArrive == InitArrive /\ [][NextArrive]_vars /\ WF_vars(ArriveUpdate)

\* The hero stands on the last cell of the observed route, nothing pending.
Arrived ==
    /\ trip.active
    /\ Idle
    /\ <<hero.gx, hero.gy>> = trip.route[Len(trip.route)]

\* C18: after a click that yields a non-empty route to G, with no further
\* click, updates with a fixed positive dt eventually leave the hero on G
\* with nothing pending, and from then on it stays on G.
C18_EventualArrival ==
    /\ trip.active ~> Arrived
    /\ [][Arrived => Arrived']_vars

\* The hero arrived at the end of a route of several cells that a click
\* installed while an earlier route was being walked.
C18_Witness ==
    /\ Arrived
    /\ Len(trip.route) >= 3
    /\ last.op = "update"
    /\ last.cell = <<hero.gx, hero.gy>>
    /\ trip.route[1] # <<HeroInit(variant).gx, HeroInit(variant).gy>>

====
